---- MODULE Spec2Model ----
(***************************************************************************)
(* namib_enforcer: the DNS resolution cache with its refresh scheduler and *)
(* watchers (src/src/services/dns.rs) and the firewall rule compiler       *)
(* (src/src/services/firewall_service.rs).                                 *)
(*                                                                         *)
(* Time is an integer number of seconds.  The cache-wide tokio RwLock is   *)
(* cache_writer / cache_readers; the watcher sets, which the code shares   *)
(* between a cache entry and its queue items through an Arc, live in the   *)
(* heap watcher_sets and entries hold a key into it.  lookup_and_cache is  *)
(* the only place that allocates one and is reached only for a name that   *)
(* is not cached, so the key of an allocation is the name it was made for. *)
(***************************************************************************)
EXTENDS Integers, Sequences, FiniteSets, Bags, TLC

\* ------------------------------------------------------------------ bounds
MaxTime == 60

MaxCalls == 3

Deltas == {30}

Names == {"a.example", "b.example"}

Watchers == {"w1", "w2"}

AddrSets == {{"1.2.3.4"}, {"1.2.3.5"}}

TTLs == {0, 60}

\* most handle_new_config calls that return Ok
MaxApplies == 2

\* most rules in one FirewallConfig
MaxRules == 2

\* ------------------------------------------------------- program constants
MIN_TIME_BEFORE_REFRESH == 30

TABLE_NAME == "namib"

BASE_CHAIN_NAME == "base_chain"

VARIABLES
    now,                      \* Instant::now()
    cache_data,               \* DnsServiceCache.cache_data: name -> entry
    refresh_queue,            \* DnsServiceCache.refresh_queue: bag of entries
    watcher_sets,             \* the allocated Arc<RwLock<HashSet<sender>>> objects
    cache_writer,             \* holder of cache.write(): "none", "refresher" or a watcher
    cache_readers,            \* holders of cache.read()
    rpc,                      \* position of auto_refresher_task
    next_expiry_time,         \* Option<Instant>: <<>> or <<t>>
    wake_at,                  \* deadline handed to sleep_until
    sleep_began,              \* Instant::now() when sleep_until was called
    refresh_start,
    watchers_to_notify,       \* HashSet of senders, kept as a bag with a deduplicating insert
    new_entries,              \* Vec<DnsRefreshQueueEntry>
    queue_element,            \* the popped item being refreshed
    changed,                  \* names whose address set changed in the current cycle
    signals,                  \* number of notify_one() calls per watcher at the end of the cycle
    wpc,                      \* position of each watcher's caller
    wname,                    \* name argument of the call in progress
    current_watched_entries,  \* DnsWatcher.current_watched_entries
    cwe_held,                 \* whether the current_watched_entries mutex is held
    clear_iter,               \* names left to iterate in clear_watched_names
    updated_names,            \* DnsWatcherSender.updated_names
    notify,                   \* DnsWatcherSender.notify: [state, woken]
    signalled,                \* a signal was raised since the last address_changed() return
    unobserved,               \* a signal was raised that no address_changed() call has observed
    result,                   \* what the last resolve_and_watch call returned
    calls,                    \* number of watcher calls begun so far
    latest,                   \* per name, the address set of its last successful lookup
    resolver_reply,           \* the resolver's reply in the current iteration of the drain loop
    fw_config,                \* the FirewallConfig handed to handle_new_config
    batch,                    \* the nftnl Batch built by the last handle_new_config
    applies,                  \* number of handle_new_config calls that returned Ok
    fw_status                 \* "running" or "panicked"

cachevars == <<cache_data, refresh_queue, watcher_sets>>

lockvars == <<cache_writer, cache_readers>>

sleepvars == <<next_expiry_time, wake_at, sleep_began>>

cyclevars == <<refresh_start, watchers_to_notify, new_entries, queue_element, changed,
               resolver_reply>>

refreshervars == <<rpc, sleepvars, cyclevars, signals>>

callvars == <<wpc, wname, cwe_held, clear_iter, result, calls>>

watchervars == <<callvars, current_watched_entries>>

sendervars == <<updated_names, notify, signalled, unobserved>>

dnsvars == <<now, cachevars, lockvars, refreshervars, watchervars, sendervars, latest>>

fwvars == <<fw_config, batch, applies, fw_status>>

vars == <<dnsvars, fwvars>>

\* ----------------------------------------------------------------- helpers
Max(a, b) == IF a >= b THEN a ELSE b

None == <<>>

Some(v) == <<v>>

UnwrapOr(opt, default) == IF opt = None THEN default ELSE opt[1]

NoItem == [name |-> "", addrs |-> {}, valid_until |-> 0, watchers |-> ""]

NoReply == [name |-> "", ok |-> FALSE, addrs |-> {}, valid_until |-> 0]

NoResult == [ok |-> FALSE, addrs |-> {}]

\* an insert into a map that keeps the newest entry only
CacheInsertEvicting(c, n, e) == [m \in {n} |-> e]

\* HashMap::insert / HashMap::remove / HashMap::get on cache_data
CacheInsert(c, n, e) == [m \in (DOMAIN c) \cup {n} |-> IF m = n THEN e ELSE c[m]]

CacheRemove(c, n) == [m \in (DOMAIN c) \ {n} |-> c[m]]

\* a refresh that leaves the old entry in the map
ReplaceSkipped(c, n, e) == c

\* cache_data.remove(name); cache_data.insert(name, new_entry)
Replace(c, n, e) == CacheInsert(CacheRemove(c, n), n, e)

\* a push that stores the item twice
QueuePushTwice(q, item) == q (+) SetToBag({item}) (+) SetToBag({item})

\* BinaryHeap::push
QueuePush(q, item) == q (+) SetToBag({item})

\* The items BinaryHeap::pop / peek may return: Ord is valid_until reversed, so the
\* greatest element is one with the earliest valid_until (ties are unordered).
QueueMin(q) ==
    {i \in BagToSet(q) : \A j \in BagToSet(q) : i.valid_until <= j.valid_until}

RECURSIVE SeqToBag(_)
SeqToBag(s) == IF s = <<>> THEN EmptyBag ELSE SetToBag({Head(s)}) (+) SeqToBag(Tail(s))


\* resolver.lookup_ip(name): an answer with some address set and some validity
\* window counted from the moment of the reply, or a ResolveError.
Replies(n, t) ==
    {[name |-> n, ok |-> TRUE, addrs |-> a, valid_until |-> t + ttl] :
        a \in AddrSets, ttl \in TTLs}
    \cup {[name |-> n, ok |-> FALSE, addrs |-> {}, valid_until |-> 0]}

\* an insert that keeps a sender already present a second time
HashSetInsertDup(set, w) == set (+) SetToBag({w})

\* HashSet::insert on watchers_to_notify: senders are equal iff they are the same
\* allocation, so a watcher already present is not inserted again.
HashSetInsert(set, w) == IF BagIn(w, set) THEN set ELSE set (+) SetToBag({w})

RECURSIVE InsertAll(_, _)
InsertAll(set, ws) ==
    IF ws = {} THEN set
    ELSE LET w == CHOOSE x \in ws : TRUE
         IN  InsertAll(HashSetInsert(set, w), ws \ {w})

\* a notify_one that wakes a waiter but stores no permit
NotifyOneNoPermit(n) ==
    IF n.state = "WAITING" THEN [state |-> "EMPTY", woken |-> TRUE] ELSE n

\* Notify::notify_one: wakes the waiter if there is one, else stores one permit.
NotifyOne(n) ==
    IF n.state = "WAITING" THEN [state |-> "EMPTY", woken |-> TRUE]
    ELSE [state |-> "NOTIFIED", woken |-> n.woken]

RECURSIVE NotifyTimes(_, _)
NotifyTimes(n, k) == IF k = 0 THEN n ELSE NotifyTimes(NotifyOne(n), k - 1)

\* a delivery to a single one of the pending watchers
NotifyCallsFirstOnly(set, w) ==
    IF set # EmptyBag /\ w = (CHOOSE x \in BagToSet(set) : TRUE) THEN 1 ELSE 0

\* watchers_to_notify.iter().for_each(|w| w.notify.notify_one()): the number of
\* notify_one() calls made on watcher w
NotifyCalls(set, w) == CopiesIn(w, set)

\* a comparison that reports every refresh as a change
AddressSetChangedAlways(new_set, old_set) == TRUE

\* new_set.eq(&old_set) negated
AddressSetChanged(new_set, old_set) == new_set # old_set

\* a deadline without the floor
SleepDeadlineNoFloor(next, t) == UnwrapOr(next, t)

\* the deadline of sleep_until
SleepDeadline(next, t) == Max(UnwrapOr(next, t), t + MIN_TIME_BEFORE_REFRESH)

\* a drain that takes every item for due
NotDueYetNever(item, start) == FALSE

\* checked_duration_since(refresh_start) is Some(d) with d > MIN_TIME_BEFORE_REFRESH
NotDueYet(item, start) ==
    /\ item.valid_until >= start
    /\ item.valid_until - start > MIN_TIME_BEFORE_REFRESH

\* a write lock that is handed out while another writer holds it
WriteGrantedShared(writer, readers) == readers = {}

\* cache.write().await returns: nobody holds the RwLock
WriteGranted(writer, readers) == writer = "none" /\ readers = {}

\* ------------------------------------------------------------------- Init
Init ==
    /\ now = 0
    /\ cache_data = <<>>
    /\ refresh_queue = EmptyBag
    /\ watcher_sets = <<>>
    /\ cache_writer = "none"
    /\ cache_readers = {}
    /\ rpc = "loop_top"
    /\ next_expiry_time = None
    /\ wake_at = 0
    /\ sleep_began = 0
    /\ refresh_start = 0
    /\ watchers_to_notify = EmptyBag
    /\ new_entries = <<>>
    /\ queue_element = NoItem
    /\ changed = {}
    /\ signals = [w \in Watchers |-> 0]
    /\ wpc = [w \in Watchers |-> "idle"]
    /\ wname = [w \in Watchers |-> ""]
    /\ current_watched_entries = [w \in Watchers |-> {}]
    /\ cwe_held = [w \in Watchers |-> FALSE]
    /\ clear_iter = [w \in Watchers |-> {}]
    /\ updated_names = [w \in Watchers |-> {}]
    /\ notify = [w \in Watchers |-> [state |-> "EMPTY", woken |-> FALSE]]
    /\ signalled = [w \in Watchers |-> FALSE]
    /\ unobserved = [w \in Watchers |-> FALSE]
    /\ result = NoResult
    /\ calls = 0
    /\ latest = <<>>
    /\ resolver_reply = NoReply
    /\ fw_config = <<>>
    /\ batch = <<>>
    /\ applies = 0
    /\ fw_status = "running"

\* ------------------------------------------------------------------ time
Tick ==
    /\ \E d \in Deltas : now + d <= MaxTime /\ now' = now + d
    /\ UNCHANGED <<cachevars, lockvars, refreshervars, watchervars, sendervars, latest,
                   fwvars>>

\* ------------------------------------------------- auto_refresher_task
\* tokio::time::sleep_until(max(next_expiry_time.unwrap_or(now), now + MIN));
\* what the previous cycle left for inspection (changed, signals) is dropped
RefresherSleep ==
    /\ rpc = "loop_top"
    /\ wake_at' = SleepDeadline(next_expiry_time, now)
    /\ sleep_began' = now
    /\ rpc' = "sleeping"
    /\ signals' = [w \in Watchers |-> 0]
    /\ changed' = {}
    /\ UNCHANGED <<now, cachevars, lockvars, next_expiry_time, refresh_start,
                   watchers_to_notify, new_entries, queue_element, resolver_reply,
                   watchervars, sendervars, latest, fwvars>>

\* the sleep is over and cache.write() is granted
CycleStart ==
    /\ rpc = "sleeping"
    /\ now >= wake_at
    /\ WriteGranted(cache_writer, cache_readers)
    /\ cache_writer' = "refresher"
    /\ refresh_start' = now
    /\ watchers_to_notify' = EmptyBag
    /\ new_entries' = <<>>
    /\ rpc' = "draining"
    /\ UNCHANGED <<now, cachevars, cache_readers, sleepvars, queue_element, changed,
                   resolver_reply, signals, watchervars, sendervars, latest, fwvars>>

\* while let Some(queue_element) = cache.refresh_queue.pop() { ... break; }
PopQueue ==
    /\ rpc = "draining"
    /\ IF refresh_queue = EmptyBag
       THEN /\ rpc' = "finish"
            /\ UNCHANGED <<refresh_queue, queue_element>>
       ELSE \E item \in QueueMin(refresh_queue) :
              IF NotDueYet(item, refresh_start)
              THEN /\ refresh_queue' = QueuePush(refresh_queue (-) SetToBag({item}), item)
                   /\ rpc' = "finish"
                   /\ UNCHANGED queue_element
              ELSE /\ refresh_queue' = refresh_queue (-) SetToBag({item})
                   /\ queue_element' = item
                   /\ rpc' = "lookup"
    /\ resolver_reply' = NoReply
    /\ UNCHANGED <<now, cache_data, watcher_sets, lockvars, sleepvars, refresh_start,
                   watchers_to_notify, new_entries, changed, signals, watchervars,
                   sendervars, latest, fwvars>>

\* a replacement entry that starts with an empty watcher set
RefreshedSetsCleared(sets, id) == [sets EXCEPT ![id] = {}]

\* watchers: queue_element.cache_entry.watchers.clone(): the Arc is cloned, so
\* the new entry shares the set of the old one and the set is not touched
RefreshedSets(sets, id) == sets

\* a failure branch that lets go of the item
RequeueDropped(entries, item) == entries

\* new_entries.push(queue_element) of the failure branch
Requeue(entries, item) == Append(entries, item)

\* the re-resolution of the popped item returns
RefreshLookup ==
    /\ rpc = "lookup"
    /\ \E r \in Replies(queue_element.name, now) :
         /\ resolver_reply' = r
         /\ IF r.ok
            THEN LET name == queue_element.name
                     new_entry == [name |-> name, addrs |-> r.addrs,
                                   valid_until |-> r.valid_until,
                                   watchers |-> queue_element.watchers]
                     ws == watcher_sets[new_entry.watchers]
                     differs == AddressSetChanged(new_entry.addrs, queue_element.addrs)
                 IN  /\ watchers_to_notify' =
                            IF differs THEN InsertAll(watchers_to_notify, ws)
                            ELSE watchers_to_notify
                     /\ updated_names' =
                            IF differs
                            THEN [w \in Watchers |->
                                    IF w \in ws THEN updated_names[w] \cup {name}
                                    ELSE updated_names[w]]
                            ELSE updated_names
                     /\ watcher_sets' = RefreshedSets(watcher_sets, new_entry.watchers)
                     /\ cache_data' = Replace(cache_data, name, new_entry)
                     /\ new_entries' = Append(new_entries, cache_data'[name])
                     /\ changed' = IF r.addrs # queue_element.addrs
                                   THEN changed \cup {name} ELSE changed
                     /\ latest' = CacheInsert(latest, name, r.addrs)
            ELSE /\ new_entries' = Requeue(new_entries, queue_element)
                 /\ UNCHANGED <<watchers_to_notify, updated_names, cache_data, changed,
                                latest, watcher_sets>>
    /\ queue_element' = NoItem
    /\ rpc' = "draining"
    /\ UNCHANGED <<now, refresh_queue, lockvars, sleepvars, refresh_start,
                   signals, notify, signalled, unobserved, watchervars, fwvars>>

\* append the held-aside items, signal the watchers, compute the next expiry and
\* drop the write guard and the other locals at the end of the loop body
CycleFinish ==
    /\ rpc = "finish"
    /\ refresh_queue' = refresh_queue (+) SeqToBag(new_entries)
    /\ notify' = [w \in Watchers |->
                    NotifyTimes(notify[w], NotifyCalls(watchers_to_notify, w))]
    /\ signals' = [w \in Watchers |-> NotifyCalls(watchers_to_notify, w)]
    /\ signalled' = [w \in Watchers |->
                       signalled[w] \/ NotifyCalls(watchers_to_notify, w) > 0]
    /\ unobserved' = [w \in Watchers |->
                        IF NotifyCalls(watchers_to_notify, w) > 0
                        THEN ~(wpc[w] = "waiting" /\ ~notify[w].woken)
                        ELSE unobserved[w]]
    /\ next_expiry_time' =
            IF refresh_queue' = EmptyBag THEN None
            ELSE Some((CHOOSE i \in QueueMin(refresh_queue') : TRUE).valid_until)
    /\ cache_writer' = "none"
    /\ refresh_start' = 0
    /\ watchers_to_notify' = EmptyBag
    /\ new_entries' = <<>>
    /\ wake_at' = 0
    /\ sleep_began' = 0
    /\ rpc' = "loop_top"
    /\ UNCHANGED <<now, cache_data, watcher_sets, cache_readers, queue_element, changed,
                   resolver_reply, updated_names, watchervars, latest, fwvars>>

\* ------------------------------------------------------------ DnsWatcher
\* a lookup of the map that takes an entry past its valid_until for absent
CacheHitUnexpired(c, n) == n \in DOMAIN c /\ c[n].valid_until > now

\* a lookup of the map that never finds the name
CacheHitNever(c, n) == FALSE

\* self.cache_data.get(name) is Some
CacheHit(c, n) == n \in DOMAIN c

\* Arc::new(RwLock::new(HashSet::new()))
Alloc(sets, id) == [k \in (DOMAIN sets) \cup {id} |-> IF k = id THEN {} ELSE sets[k]]

\* resolved_value.watchers.write().await.insert(self.sender.clone())
Register(sets, id, w) == [sets EXCEPT ![id] = @ \cup {w}]

\* a remove that leaves the sender in the set
UnregisterNone(sets, id, w) == sets

\* cache_entry.watchers.write().await.remove(&self.sender.clone())
Unregister(sets, id, w) == [sets EXCEPT ![id] = @ \ {w}]

\* resolved_value.lookup_result.deref().clone(), by its address set
Returned(entry) == [ok |-> TRUE, addrs |-> entry.addrs]

\* resolve_and_watch(name): cache.write() is granted; with the name cached,
\* resolve() returns the entry and the call completes; otherwise the call waits
\* for the resolver inside lookup_and_cache, the write guard held.
ResolveAndWatch(w, n) ==
    /\ wpc[w] = "idle"
    /\ calls' = calls + 1
    /\ WriteGranted(cache_writer, cache_readers)
    /\ IF CacheHit(cache_data, n)
       THEN LET resolved_value == cache_data[n]
            IN  /\ watcher_sets' = Register(watcher_sets, resolved_value.watchers, w)
                /\ current_watched_entries' =
                        [current_watched_entries EXCEPT ![w] = @ \cup {n}]
                /\ result' = Returned(resolved_value)
                /\ UNCHANGED <<cache_writer, wpc, wname>>
       ELSE /\ cache_writer' = w
            /\ wpc' = [wpc EXCEPT ![w] = "lookup"]
            /\ wname' = [wname EXCEPT ![w] = n]
            /\ UNCHANGED <<watcher_sets, current_watched_entries, result>>
    /\ UNCHANGED <<now, cache_data, refresh_queue, cache_readers, cwe_held, clear_iter,
                   refreshervars, sendervars, latest, fwvars>>

\* a lookup that stores an entry whatever the resolver replied
CacheAfterLookupAlways(c, n, r) ==
    CacheInsert(c, n, [name |-> n, addrs |-> r.addrs, valid_until |-> r.valid_until,
                       watchers |-> n])

\* cache_data when lookup_and_cache(n) is over: lookup_ip(name).await? leaves the
\* function on an error, before the insert
CacheAfterLookup(c, n, r) ==
    IF r.ok
    THEN CacheInsert(c, n, [name |-> n, addrs |-> r.addrs, valid_until |-> r.valid_until,
                            watchers |-> n])
    ELSE c

\* lookup_and_cache(name) gets the resolver's reply; resolve_and_watch goes on
\* to register the watcher, or returns the error through `?`.
LookupAndCache(w) ==
    /\ wpc[w] = "lookup"
    /\ \E r \in Replies(wname[w], now) :
         /\ cache_data' = CacheAfterLookup(cache_data, wname[w], r)
         /\ IF r.ok
            THEN LET n == wname[w]
                 IN  /\ refresh_queue' = QueuePush(refresh_queue, cache_data'[n])
                     /\ watcher_sets' =
                            Register(Alloc(watcher_sets, n), cache_data'[n].watchers, w)
                     /\ current_watched_entries' =
                            [current_watched_entries EXCEPT ![w] = @ \cup {n}]
                     /\ result' = Returned(cache_data'[n])
                     /\ latest' = CacheInsert(latest, n, r.addrs)
            ELSE /\ result' = [ok |-> FALSE, addrs |-> {}]
                 /\ UNCHANGED <<refresh_queue, watcher_sets, current_watched_entries,
                                latest>>
    /\ cache_writer' = "none"
    /\ wpc' = [wpc EXCEPT ![w] = "idle"]
    /\ wname' = [wname EXCEPT ![w] = ""]
    /\ UNCHANGED <<now, cache_readers, cwe_held, clear_iter, calls, refreshervars,
                   sendervars, fwvars>>

\* an unknown name that is passed over in silence
UnwrapNoneIgnored(to) == to

\* where resolve_if_cached(name).unwrap() leaves the caller when the name is
\* not cached: Option::unwrap panics on None
UnwrapNone(to) == "panicked"

\* The body of remove_watched_name(name), for a caller that goes on at position
\* `to`: cache.read() is granted, resolve_if_cached(name) is unwrapped (a panic
\* for an unknown name, the read guard dropped by the unwinding), the sender is
\* removed from the entry's watcher set, and then the call locks
\* current_watched_entries.  That mutex is not reentrant: when the caller holds
\* it already, the call waits for it with the read guard still held.
RemoveBody(w, n, to) ==
    /\ cache_writer = "none"
    /\ IF ~CacheHit(cache_data, n)
       THEN /\ wpc' = [wpc EXCEPT ![w] = UnwrapNone(to)]
            /\ UNCHANGED <<watcher_sets, current_watched_entries, cache_readers>>
       ELSE /\ watcher_sets' = Unregister(watcher_sets, cache_data[n].watchers, w)
            /\ IF cwe_held[w]
               THEN /\ wpc' = [wpc EXCEPT ![w] = "blocked"]
                    /\ cache_readers' = cache_readers \cup {w}
                    /\ UNCHANGED current_watched_entries
               ELSE /\ current_watched_entries' =
                            [current_watched_entries EXCEPT ![w] = @ \ {n}]
                    /\ wpc' = [wpc EXCEPT ![w] = to]
                    /\ UNCHANGED cache_readers
    /\ UNCHANGED <<now, cache_data, refresh_queue, cache_writer, wname, cwe_held, result,
                   refreshervars, sendervars, latest, fwvars>>

\* remove_watched_name(name) called by the watcher's owner
RemoveWatchedName(w, n) ==
    /\ wpc[w] = "idle"
    /\ calls' = calls + 1
    /\ RemoveBody(w, n, "idle")
    /\ UNCHANGED clear_iter

\* clear_watched_names(): current_watched_entries.lock().await.clone() is the
\* iterator expression of the for loop, so the guard it creates lives until the
\* loop ends.
ClearWatchedNames(w) ==
    /\ wpc[w] = "idle"
    /\ calls' = calls + 1
    /\ ~cwe_held[w]
    /\ cwe_held' = [cwe_held EXCEPT ![w] = TRUE]
    /\ clear_iter' = [clear_iter EXCEPT ![w] = current_watched_entries[w]]
    /\ wpc' = [wpc EXCEPT ![w] = "clearing"]
    /\ UNCHANGED <<now, cachevars, lockvars, wname, result, current_watched_entries,
                   refreshervars, sendervars, latest, fwvars>>

\* one iteration of the for loop of clear_watched_names, or its end
ClearNext(w) ==
    /\ wpc[w] = "clearing"
    /\ IF clear_iter[w] = {}
       THEN /\ cwe_held' = [cwe_held EXCEPT ![w] = FALSE]
            /\ wpc' = [wpc EXCEPT ![w] = "idle"]
            /\ UNCHANGED <<now, cachevars, lockvars, wname, clear_iter, result, calls,
                           current_watched_entries, refreshervars, sendervars, latest,
                           fwvars>>
       ELSE \E n \in clear_iter[w] :
              /\ clear_iter' = [clear_iter EXCEPT ![w] = @ \ {n}]
              /\ RemoveBody(w, n, "clearing")
              /\ UNCHANGED calls

\* address_changed(): notified().await takes a stored permit and returns, or
\* registers as the waiter and suspends
AddressChanged(w) ==
    /\ wpc[w] = "idle"
    /\ calls' = calls + 1
    /\ IF notify[w].state = "NOTIFIED"
       THEN /\ notify' = [notify EXCEPT ![w] = [state |-> "EMPTY", woken |-> FALSE]]
            /\ signalled' = [signalled EXCEPT ![w] = FALSE]
            /\ unobserved' = [unobserved EXCEPT ![w] = FALSE]
            /\ UNCHANGED wpc
       ELSE /\ notify' = [notify EXCEPT ![w] = [state |-> "WAITING", woken |-> FALSE]]
            /\ wpc' = [wpc EXCEPT ![w] = "waiting"]
            /\ UNCHANGED <<signalled, unobserved>>
    /\ UNCHANGED <<now, cachevars, lockvars, wname, cwe_held, clear_iter, result,
                   current_watched_entries, updated_names, refreshervars, latest, fwvars>>

\* the suspended address_changed() is woken by notify_one and returns
AddressChangedWake(w) ==
    /\ wpc[w] = "waiting"
    /\ notify[w].woken
    /\ notify' = [notify EXCEPT ![w] = [state |-> @.state, woken |-> FALSE]]
    /\ wpc' = [wpc EXCEPT ![w] = "idle"]
    /\ signalled' = [signalled EXCEPT ![w] = FALSE]
    /\ UNCHANGED <<now, cachevars, lockvars, wname, cwe_held, clear_iter, result, calls,
                   current_watched_entries, updated_names, unobserved, refreshervars,
                   latest, fwvars>>

\* ------------------------------------------------------------------- Next
\* the scheduler and the clock
Background ==
    \/ Tick
    \/ RefresherSleep
    \/ CycleStart
    \/ PopQueue
    \/ RefreshLookup
    \/ CycleFinish

\* the steps that carry on a watcher call already begun
Continue ==
    \/ \E w \in Watchers : LookupAndCache(w)
    \/ \E w \in Watchers : ClearNext(w)
    \/ \E w \in Watchers : AddressChangedWake(w)

\* at most MaxCalls watcher calls are begun, on any of the names
Next ==
    \/ Background
    \/ Continue
    \/ \E w \in Watchers, n \in Names : calls < MaxCalls /\ ResolveAndWatch(w, n)
    \/ \E w \in Watchers, n \in Names : calls < MaxCalls /\ RemoveWatchedName(w, n)
    \/ \E w \in Watchers : calls < MaxCalls /\ ClearWatchedNames(w)
    \/ \E w \in Watchers : calls < MaxCalls /\ AddressChanged(w)

Spec == Init /\ [][Next]_vars

\* The specification of the liveness claims: one more call may be begun, all of
\* them on one name.
OneName == CHOOSE n \in Names : TRUE

FairNext ==
    \/ Background
    \/ Continue
    \/ \E w \in Watchers : calls < MaxCalls + 1 /\ ResolveAndWatch(w, OneName)
    \/ \E w \in Watchers : calls < MaxCalls + 1 /\ RemoveWatchedName(w, OneName)
    \/ \E w \in Watchers : calls < MaxCalls + 1 /\ ClearWatchedNames(w)
    \/ \E w \in Watchers : calls < MaxCalls + 1 /\ AddressChanged(w)

\* The scheduler's cycle always goes on (the resolver replies), a watcher's
\* lookup returns, and a woken address_changed() is polled again.  The lock
\* requests of clear_watched_names are served: tokio's RwLock queues them fairly.
FairSpec ==
    /\ Init
    /\ [][FairNext]_vars
    /\ WF_vars(PopQueue)
    /\ WF_vars(RefreshLookup)
    /\ WF_vars(CycleFinish)
    /\ \A w \in Watchers : WF_vars(LookupAndCache(w))
    /\ \A w \in Watchers : WF_vars(AddressChangedWake(w))
    /\ \A w \in Watchers : SF_vars(ClearNext(w))

\* The specification of the refresh cycle: the scheduler, with the calls that
\* fill the cache and the queue.
CycleNext ==
    \/ Background
    \/ \E w \in Watchers : LookupAndCache(w)
    \/ \E w \in Watchers, n \in Names : calls < MaxCalls /\ ResolveAndWatch(w, n)

\* the resolver replies and the scheduler's task is polled again
CycleSpec ==
    /\ Init
    /\ [][CycleNext]_vars
    /\ WF_vars(PopQueue)
    /\ WF_vars(RefreshLookup)
    /\ WF_vars(CycleFinish)

\* ---------------------------------------------------------------- firewall
\* An instruction of the nftnl batch: the message type and the object it carries.
Instruction(msg, obj, name, chain, hook, policy, exprs) ==
    [msg |-> msg, obj |-> obj, name |-> name, chain |-> chain, hook |-> hook,
     policy |-> policy, exprs |-> exprs]

\* batch.add(&table, MsgType::Add) for Table::new(TABLE_NAME, ProtoFamily::Inet)
TableAdd == Instruction("Add", "table", TABLE_NAME, "", "", "", <<>>)

\* batch.add(&chain, MsgType::Add) for a chain of the table
ChainAdd(name, hook, policy) == Instruction("Add", "chain", name, "", hook, policy, <<>>)

\* batch.add(&rule, MsgType::Add) for Rule::new(&chain) with its expressions
RuleAdd(chain, exprs) == Instruction("Add", "rule", "", chain, "", "", exprs)

NFPROTO(fam) == IF fam = "ipv4" THEN "NFPROTO_IPV4" ELSE "NFPROTO_IPV6"

\* the three expressions added for an address: cmp == NFPROTO_IPVx,
\* payload ipvx saddr|daddr, cmp == addr
HostMatch(ip, dir) ==
    << <<"cmp", NFPROTO(ip.fam), "">>, <<"payload", ip.fam, dir>>, <<"cmp", ip.addr, "">> >>

\* the base-chain rule that dispatches to the device chain
DeviceJumpRule(device, dir) ==
    RuleAdd(BASE_CHAIN_NAME,
            << <<"meta", "nfproto", "">> >> \o HostMatch(device.ip, dir)
                \o << <<"verdict", "jump", device.id>> >>)

\* match rule_spec.protocol, inside the IPv4 destination arm only
ProtocolMatch(protocol) ==
    IF protocol = "Tcp"
    THEN << <<"payload", "ipv4", "protocol">>, <<"cmp", "tcp", "">> >>
    ELSE IF protocol = "Udp"
         THEN << <<"payload", "ipv4", "protocol">>, <<"cmp", "udp", "">> >>
         ELSE <<>>

\* a source match that is built for every kind of host
SrcExprsAlways(rule_spec) == HostMatch(rule_spec.src, "saddr")

\* if let Some(NetworkHost::Ip(ipaddr)) = rule_spec.src.host
SrcExprs(rule_spec) ==
    IF rule_spec.src.kind = "Ip" THEN HostMatch(rule_spec.src, "saddr") ELSE <<>>

\* if let Some(NetworkHost::Ip(ipaddr)) = rule_spec.dst.host
DstExprs(rule_spec) ==
    IF rule_spec.dst.kind = "Ip"
    THEN HostMatch(rule_spec.dst, "daddr")
             \o (IF rule_spec.dst.fam = "ipv4" THEN ProtocolMatch(rule_spec.protocol)
                 ELSE <<>>)
    ELSE <<>>

\* match rule_spec.target: REJECT is compiled to a drop
TargetExpr(target) ==
    IF target = "ACCEPT" THEN <<"verdict", "accept", "">> ELSE <<"verdict", "drop", "">>

\* the rule of the device chain compiled from one rule_spec
CurrentRule(device, rule_spec) ==
    RuleAdd(device.id,
            SrcExprs(rule_spec) \o DstExprs(rule_spec) \o <<TargetExpr(rule_spec.target)>>)

\* for rule_spec in &device.rules
RuleInstructions(device) ==
    [k \in 1..Len(device.rules) |-> CurrentRule(device, device.rules[k])]

\* a variant of the loop body that adds the destination dispatch rule first
DeviceInstructionsDstFirst(device) ==
    <<ChainAdd(device.id, "", "Drop"), DeviceJumpRule(device, "daddr"),
      DeviceJumpRule(device, "saddr")>> \o RuleInstructions(device)

\* the body of for device in config.devices()
DeviceInstructions(device) ==
    <<ChainAdd(device.id, "", "Drop"), DeviceJumpRule(device, "saddr"),
      DeviceJumpRule(device, "daddr")>> \o RuleInstructions(device)

RECURSIVE DevicesInstructions(_)
DevicesInstructions(devices) ==
    IF devices = <<>> THEN <<>>
    ELSE DeviceInstructions(Head(devices)) \o DevicesInstructions(Tail(devices))

convert_config_to_nftnl_commands(b, config) ==
    b \o <<TableAdd, ChainAdd(BASE_CHAIN_NAME, "In", "Accept")>> \o DevicesInstructions(config)

\* the function body is a TODO: nothing is added to the batch
add_old_config_deletion_instructions(b) == b

\* ---- the configurations handed to handle_new_config
NoHost == [kind |-> "None", fam |-> "", addr |-> ""]

Ip(fam, addr) == [kind |-> "Ip", fam |-> fam, addr |-> addr]

Fqdn(name) == [kind |-> "Fqdn", fam |-> "", addr |-> name]

RuleSpecs ==
    { [src |-> NoHost, dst |-> Ip("ipv4", "10.0.0.9"), protocol |-> "Tcp",
       target |-> "ACCEPT"],
      [src |-> Ip("ipv4", "10.0.0.7"), dst |-> Ip("ipv6", "fd00::8"), protocol |-> "Udp",
       target |-> "REJECT"],
      [src |-> Fqdn("a.example"), dst |-> Ip("ipv4", "10.0.0.8"), protocol |-> "Other",
       target |-> "DROP"],
      [src |-> Fqdn("b.example"), dst |-> NoHost, protocol |-> "Tcp",
       target |-> "REJECT"] }

DeviceIds == {"dev1", "dev2"}

DeviceIp(id) == IF id = "dev1" THEN Ip("ipv4", "10.0.0.5") ELSE Ip("ipv6", "fd00::5")

SeqsOf(S, n) == UNION {[1..k -> S] : k \in 0..n}

RECURSIVE TotalRules(_)
TotalRules(devices) ==
    IF devices = <<>> THEN 0 ELSE Len(Head(devices).rules) + TotalRules(Tail(devices))

\* the devices of a configuration, in every order
DeviceOrders ==
    {o \in SeqsOf(DeviceIds, Cardinality(DeviceIds)) :
        \A i, j \in 1..Len(o) : i # j => o[i] # o[j]}

Configs ==
    {c \in UNION {{[i \in 1..Len(o) |-> [id |-> o[i], ip |-> DeviceIp(o[i]), rules |-> rl[i]]] :
                      rl \in [1..Len(o) -> SeqsOf(RuleSpecs, MaxRules)]} :
                  o \in DeviceOrders} :
        TotalRules(c) <= MaxRules}

\* handle_new_config(config): the batch is built and sent; send_and_process's
\* result is unwrapped, so a transport error is a panic.
HandleNewConfig(config, sent) ==
    /\ fw_status = "running"
    /\ applies < MaxApplies
    /\ fw_config' = config
    /\ batch' = convert_config_to_nftnl_commands(add_old_config_deletion_instructions(<<>>),
                                                 config)
    /\ IF sent
       THEN /\ applies' = applies + 1
            /\ UNCHANGED fw_status
       ELSE /\ fw_status' = "panicked"
            /\ UNCHANGED applies
    /\ UNCHANGED dnsvars

FwNext == \E config \in Configs, sent \in BOOLEAN : HandleNewConfig(config, sent)

FwSpec == Init /\ [][FwNext]_vars

\* ----------------------------------------------------------------- claims
InCycle == rpc \in {"draining", "lookup", "finish"}

\* the watchers registered on the live entry of name n
RegisteredOn(sets, c, n) == IF n \in DOMAIN c THEN sets[c[n].watchers] ELSE {}

\* C1: when a refresh cycle ends, every watcher registered on a name whose
\* address set changed in that cycle has been signalled, by exactly one
\* notify_one() call, however many of its names changed.
C1_NotifiedOncePerCycle ==
    [][(rpc = "finish" /\ rpc' = "loop_top") =>
          \A n \in changed' : \A w \in RegisteredOn(watcher_sets', cache_data', n) :
              /\ signals'[w] = 1
              /\ signalled'[w]
              /\ notify'[w].state = "NOTIFIED" \/ notify'[w].woken]_vars

\* a cycle has just ended in which both names changed; w1 watches both of them
\* and w2 one of them, and each got one signal
C1_Witness ==
    /\ rpc = "loop_top"
    /\ changed = Names
    /\ \A n \in Names : "w1" \in RegisteredOn(watcher_sets, cache_data, n)
    /\ \E n \in Names : "w2" \in RegisteredOn(watcher_sets, cache_data, n)
    /\ signals["w1"] = 1
    /\ signals["w2"] = 1

\* C2: a successful re-resolution that yields the old address set replaces the
\* cache entry by the new lookup result and holds a new queue item aside, and
\* neither marks a watcher for notification nor records the name as updated.
C2_UnchangedNotNotified ==
    [][(/\ rpc = "lookup"
        /\ rpc' = "draining"
        /\ resolver_reply'.ok
        /\ resolver_reply'.addrs = queue_element.addrs) =>
          LET n == queue_element.name
              e == [name |-> n, addrs |-> resolver_reply'.addrs,
                    valid_until |-> resolver_reply'.valid_until,
                    watchers |-> queue_element.watchers]
          IN  /\ cache_data'[n] = e
              /\ new_entries' = Append(new_entries, e)
              /\ watchers_to_notify' = watchers_to_notify
              /\ updated_names' = updated_names]_vars

\* an unchanged address set came back with a new valid_until for a watched name
C2_Witness ==
    /\ rpc = "draining"
    /\ resolver_reply.ok
    /\ changed = {}
    /\ watchers_to_notify = EmptyBag
    /\ \E i \in 1..Len(new_entries) :
         /\ new_entries[i].name = resolver_reply.name
         /\ new_entries[i].valid_until = resolver_reply.valid_until
         /\ new_entries[i].valid_until > refresh_start
         /\ watcher_sets[new_entries[i].watchers] # {}

\* C3: resolve_and_watch of a cached, unexpired name returns the cached entry
\* at once, without entering the resolver lookup, and leaves the cache map and
\* the refresh queue as they are.
C3_CachedResolveNoLookup ==
    [][\A w \in Watchers, n \in Names :
          (/\ ResolveAndWatch(w, n)
           /\ n \in DOMAIN cache_data
           /\ now < cache_data[n].valid_until) =>
             /\ wpc'[w] = "idle"
             /\ cache_writer' = "none"
             /\ result' = [ok |-> TRUE, addrs |-> cache_data[n].addrs]
             /\ cache_data' = cache_data
             /\ refresh_queue' = refresh_queue]_vars

\* a second watcher call found the name cached and unexpired and got its addresses
C3_Witness ==
    /\ calls >= 2
    /\ \E n \in DOMAIN cache_data :
         /\ now < cache_data[n].valid_until
         /\ result = [ok |-> TRUE, addrs |-> cache_data[n].addrs]
         /\ watcher_sets[cache_data[n].watchers] = Watchers
         /\ BagCardinality(refresh_queue) = 1
    /\ \A w \in Watchers : wpc[w] = "idle"

\* C4: when a refresh cycle has observed a changed address set for a name, each
\* watcher registered on that name that is suspended in address_changed()
\* eventually returns from it.
C4_FanOut ==
    \A w \in Watchers :
        (/\ InCycle
         /\ wpc[w] = "waiting"
         /\ \E n \in changed : w \in RegisteredOn(watcher_sets, cache_data, n))
            ~> (wpc[w] = "idle")

\* both watchers watch the same name, both were suspended in address_changed()
\* and both have been woken by the cycle that changed the name
C4_Witness ==
    /\ \E n \in DOMAIN cache_data : watcher_sets[cache_data[n].watchers] = Watchers
    /\ \A w \in Watchers : wpc[w] = "waiting" /\ notify[w].woken /\ signals[w] = 1

\* C5: a resolve_and_watch of a cached name N by a watcher that has N recorded as
\* updated returns the address set of N's most recent successful lookup; and
\* whenever the scheduler does not hold the cache, every cache entry holds the
\* address set of its name's most recent successful lookup.
C5_ResolveAfterNotify ==
    [][/\ \A w \in Watchers, n \in Names :
            (/\ ResolveAndWatch(w, n)
             /\ n \in DOMAIN cache_data
             /\ n \in updated_names[w]) => result' = [ok |-> TRUE, addrs |-> latest[n]]
       /\ cache_writer' # "refresher" =>
            \A n \in DOMAIN cache_data' : cache_data'[n].addrs = latest'[n]]_vars

\* a watcher was signalled for a changed name and then resolved it again
C5_Witness ==
    \E w \in Watchers, n \in DOMAIN cache_data :
        /\ n \in updated_names[w]
        /\ rpc = "sleeping"
        /\ ~signalled[w]
        /\ notify[w].state = "EMPTY"
        /\ wpc[w] = "idle"
        /\ calls = MaxCalls
        /\ result = [ok |-> TRUE, addrs |-> cache_data[n].addrs]
        /\ cache_data[n].valid_until > now

\* C6 as claimed: an address_changed() call returns at once when a signal was
\* raised since the last address_changed() return, and suspends when none was.
C6_SinceLastReturn ==
    [][\A w \in Watchers :
          AddressChanged(w) =>
             IF signalled[w] THEN wpc'[w] = "idle" ELSE wpc'[w] = "waiting"]_vars

\* C6: a signal raised while no address_changed() call is suspended stays
\* stored, and the next call returns at once; a call suspends when no signal
\* was raised since the last one was observed (by the suspended call it woke,
\* or by a call that returned at once); a suspended call returns only after a
\* signal.
C6_NoMissedWakeup ==
    [][\A w \in Watchers :
          /\ AddressChanged(w) =>
                IF unobserved[w] THEN wpc'[w] = "idle" /\ ~unobserved'[w]
                ELSE wpc'[w] = "waiting"
          /\ (wpc[w] = "waiting" /\ wpc'[w] # "waiting") => signalled[w]]_vars

\* one watcher was signalled while it was not waiting and has the signal
\* stored; the other has called address_changed() with no signal raised and is
\* suspended
C6_Witness ==
    \E w, v \in Watchers :
        /\ wpc[w] = "idle" /\ unobserved[w] /\ signalled[w]
        /\ wpc[v] = "waiting" /\ ~unobserved[v] /\ ~signalled[v]

\* C7: a refresh cycle starts at least MIN_TIME_BEFORE_REFRESH after the
\* scheduler began to sleep.
C7_CadenceFloor ==
    InCycle => refresh_start >= sleep_began + MIN_TIME_BEFORE_REFRESH

\* a later cycle refreshes an entry whose validity had elapsed before the
\* scheduler began to sleep
C7_Witness ==
    /\ rpc = "lookup"
    /\ next_expiry_time # None
    /\ queue_element.valid_until <= sleep_began

\* C8: a clear_watched_names() call that has begun completes, and when it has the
\* watcher's local set is empty and the watcher is in no cache entry's watcher
\* set.
C8_ClearCompletes ==
    \A w \in Watchers :
        (wpc[w] = "clearing")
            ~> (/\ wpc[w] = "idle"
                /\ current_watched_entries[w] = {}
                /\ \A n \in DOMAIN watcher_sets : w \notin watcher_sets[n])

\* C9: the batch of a handle_new_config call that follows a successful one begins
\* with a delete instruction for the previous generation.
C9_DeletesPrevious ==
    applies >= 2 => (batch # <<>> /\ batch[1].msg = "Del")

\* number of instructions that precede those of device i
RECURSIVE Offset(_, _)
Offset(config, i) ==
    IF i = 1 THEN 2 ELSE Offset(config, i - 1) + 3 + Len(config[i - 1].rules)

\* the expressions hold payload <family> <dir> followed by cmp == <address>
Matches(exprs, ip, dir) ==
    \E j \in 1..(Len(exprs) - 1) :
        exprs[j] = <<"payload", ip.fam, dir>> /\ exprs[j + 1] = <<"cmp", ip.addr, "">>

\* the instruction is the rule compiled from rule_spec
IsRuleOf(instr, rule_spec) ==
    /\ rule_spec.src.kind = "Ip" => Matches(instr.exprs, rule_spec.src, "saddr")
    /\ rule_spec.dst.kind = "Ip" => Matches(instr.exprs, rule_spec.dst, "daddr")
    /\ instr.exprs[Len(instr.exprs)] =
           <<"verdict", IF rule_spec.target = "ACCEPT" THEN "accept" ELSE "drop", "">>

\* C10: the batch built from a configuration is, in this order, the table add,
\* the base chain add (hook In, policy Accept) and for each device in order: its
\* chain add (named by the id, policy Drop), the base-chain rule matching its
\* address as source and jumping to its chain, the same for destination, and
\* one rule in its chain per configured rule, in order; all are adds, and there
\* are 2 + sum of (3 + number of rules) of them.
C10_BatchStructure ==
    batch # <<>> =>
        /\ Len(batch) = Offset(fw_config, Len(fw_config) + 1)
        /\ \A k \in 1..Len(batch) : batch[k].msg = "Add"
        /\ batch[1].obj = "table" /\ batch[1].name = TABLE_NAME
        /\ batch[2].obj = "chain" /\ batch[2].name = BASE_CHAIN_NAME
        /\ batch[2].hook = "In" /\ batch[2].policy = "Accept"
        /\ \A i \in 1..Len(fw_config) :
              LET o == Offset(fw_config, i)
                  device == fw_config[i]
              IN  /\ batch[o + 1].obj = "chain" /\ batch[o + 1].name = device.id
                  /\ batch[o + 1].policy = "Drop"
                  /\ \A k \in {2, 3} :
                        /\ batch[o + k].obj = "rule"
                        /\ batch[o + k].chain = BASE_CHAIN_NAME
                        /\ batch[o + k].exprs[Len(batch[o + k].exprs)]
                               = <<"verdict", "jump", device.id>>
                  /\ Matches(batch[o + 2].exprs, device.ip, "saddr")
                  /\ Matches(batch[o + 3].exprs, device.ip, "daddr")
                  /\ \A k \in 1..Len(device.rules) :
                        /\ batch[o + 3 + k].obj = "rule"
                        /\ batch[o + 3 + k].chain = device.id
                        /\ IsRuleOf(batch[o + 3 + k], device.rules[k])

\* a configuration of two devices with a rule each has been compiled
C10_Witness ==
    /\ Len(fw_config) = 2
    /\ \A i \in 1..2 : Len(fw_config[i].rules) = 1
    /\ fw_config[1].rules # fw_config[2].rules
    /\ Len(batch) = 10

\* the name the protocol is compared with
ProtocolName(protocol) == IF protocol = "Tcp" THEN "tcp" ELSE "udp"

\* the expressions load the transport protocol and compare it with the
\* protocol's name, after the comparison with the address and before the verdict
HasProtocolMatch(exprs, addr, protocol) ==
    \E d \in 1..Len(exprs), j \in 1..Len(exprs) :
        /\ d < j /\ j + 1 < Len(exprs)
        /\ exprs[d] = <<"cmp", addr, "">>
        /\ exprs[j][1] = "payload" /\ exprs[j][3] = "protocol"
        /\ exprs[j + 1] = <<"cmp", ProtocolName(protocol), "">>

\* C11: the device-chain rule compiled from a rule with a literal destination
\* and protocol TCP or UDP holds a protocol match after the destination match
\* and before the verdict; the rule compiled from any other rule holds no
\* protocol match.
C11_ProtocolMatch ==
    batch # <<>> =>
        \A i \in 1..Len(fw_config) : \A k \in 1..Len(fw_config[i].rules) :
            LET rule_spec == fw_config[i].rules[k]
                exprs == batch[Offset(fw_config, i) + 3 + k].exprs
            IN  IF rule_spec.dst.kind = "Ip" /\ rule_spec.protocol \in {"Tcp", "Udp"}
                THEN HasProtocolMatch(exprs, rule_spec.dst.addr, rule_spec.protocol)
                ELSE \A j \in 1..Len(exprs) : exprs[j][3] # "protocol"

\* C12: a handle_new_config call whose transport fails returns to its caller:
\* no call ends in a panic.
C12_TransportErrorReturned ==
    fw_status # "panicked"

\* C13: a resolve_and_watch whose resolver lookup fails returns the error and
\* leaves the cache map, the refresh queue, the watcher sets and the local
\* watched-name set as they were; the name stays uncached, a resolve_and_watch
\* of an uncached name enters a resolver lookup, and the scheduler looks up
\* only names that a lookup has resolved.
C13_FailureNotCached ==
    [][/\ \A w \in Watchers :
            /\ (wpc[w] = "lookup" /\ wpc'[w] = "idle" /\ ~result'.ok) =>
                  /\ cache_data' = cache_data
                  /\ refresh_queue' = refresh_queue
                  /\ watcher_sets' = watcher_sets
                  /\ current_watched_entries' = current_watched_entries
                  /\ cache_writer' = "none"
                  /\ wname[w] \notin DOMAIN cache_data'
            /\ \A n \in Names :
                  (ResolveAndWatch(w, n) /\ n \notin DOMAIN cache_data) =>
                      wpc'[w] = "lookup" /\ wname'[w] = n
       /\ rpc' = "lookup" => queue_element'.name \in DOMAIN latest'
       /\ DOMAIN cache_data' = DOMAIN latest']_vars

\* after a lookup of one name succeeded, the lookup of the other failed, and a
\* later call looks that name up again
C13_Witness ==
    \E w \in Watchers, n \in Names :
        /\ wpc[w] = "lookup"
        /\ wname[w] = n
        /\ ~result.ok
        /\ n \notin DOMAIN cache_data
        /\ DOMAIN cache_data # {}
        /\ \E v \in Watchers : current_watched_entries[v] # {}

\* C14: a failed re-resolution holds the popped item aside as it is and leaves
\* the cache map, the watcher sets, the watchers marked for notification and
\* the recorded updated names untouched; the drain goes on with the rest of
\* the queue, and the end of the cycle puts every item held aside back.
C14_RefreshFailureIsolated ==
    [][/\ (rpc = "lookup" /\ rpc' = "draining" /\ ~resolver_reply'.ok) =>
             /\ new_entries' = Append(new_entries, queue_element)
             /\ cache_data' = cache_data
             /\ cache_data[queue_element.name] = queue_element
             /\ watcher_sets' = watcher_sets
             /\ watchers_to_notify' = watchers_to_notify
             /\ updated_names' = updated_names
             /\ notify' = notify
             /\ refresh_queue' = refresh_queue
             /\ cache_writer' = "refresher"
       /\ (rpc = "finish" /\ rpc' = "loop_top") =>
             /\ refresh_queue' = refresh_queue (+) SeqToBag(new_entries)
             /\ \A n \in DOMAIN cache_data : BagIn(cache_data[n], refresh_queue')]_vars

\* the re-resolution of a watched name has just failed while the other name is
\* still in the queue and due
C14_Witness ==
    /\ rpc = "draining"
    /\ resolver_reply.name # ""
    /\ ~resolver_reply.ok
    /\ Len(new_entries) = 1
    /\ new_entries[1].name = resolver_reply.name
    /\ watcher_sets[new_entries[1].watchers] # {}
    /\ \E item \in BagToSet(refresh_queue) :
         item.name # resolver_reply.name /\ ~NotDueYet(item, refresh_start)

\* C15: remove_watched_name of a name that has no cache entry panics; it
\* changes no watcher set and no local watched-name set, and holds no guard of
\* the cache lock afterwards.
C15_RemoveUnknownPanics ==
    [][\A w \in Watchers, n \in Names :
          (RemoveWatchedName(w, n) /\ n \notin DOMAIN cache_data) =>
              /\ wpc'[w] = "panicked"
              /\ watcher_sets' = watcher_sets
              /\ current_watched_entries' = current_watched_entries
              /\ cache_data' = cache_data
              /\ w \notin cache_readers'
              /\ cache_writer' = "none"]_vars

\* a watcher has panicked in remove_watched_name, and afterwards the other
\* watcher was granted the cache lock for a lookup
C15_Witness ==
    \E w, v \in Watchers :
        /\ wpc[w] = "panicked"
        /\ wpc[v] = "lookup"
        /\ cache_writer = v

\* C16: the cache map holds each name once, under its own name, and never loses
\* a name; a name that a lookup has resolved is in the map; no call reads or
\* changes the cache while the scheduler is inside its cycle, where an entry
\* is removed and inserted again; and no resolve_and_watch or
\* remove_watched_name finds a resolved name absent.
C16_CacheMapInvariant ==
    [][/\ DOMAIN cache_data \subseteq DOMAIN cache_data'
       /\ DOMAIN latest' \subseteq DOMAIN cache_data'
       /\ \A n \in DOMAIN cache_data' : cache_data'[n].name = n
       /\ cache_writer = "refresher" =>
             /\ result' = result
             /\ watcher_sets' = watcher_sets
             /\ current_watched_entries' = current_watched_entries
             /\ \A w \in Watchers : wpc'[w] \in {"lookup", "panicked", "blocked"}
                                        => wpc'[w] = wpc[w]
       /\ \A w \in Watchers, n \in DOMAIN latest :
             /\ ResolveAndWatch(w, n) =>
                   wpc'[w] = "idle" /\ result' = [ok |-> TRUE, addrs |-> latest[n]]
             /\ RemoveWatchedName(w, n) => wpc'[w] = "idle"]_vars

\* the scheduler, inside its cycle, has replaced the entry of one of two
\* cached names while a watcher waits for a change
C16_Witness ==
    /\ rpc = "draining"
    /\ cache_writer = "refresher"
    /\ resolver_reply.ok
    /\ DOMAIN cache_data = Names
    /\ cache_data[resolver_reply.name].valid_until = resolver_reply.valid_until
    /\ resolver_reply.name \in changed
    /\ \E w \in Watchers : wpc[w] = "waiting"

\* the items of the queue that belong to name n
ItemsOf(q, n) == [i \in {j \in BagToSet(q) : j.name = n} |-> q[i]]

C18_NoSelfBlock ==
    \A w \in Watchers : ~(wpc[w] = "blocked" /\ cwe_held[w])

\* C19: the scheduler never sleeps past the time by which an entry of the cache
\* is to be refreshed: its wake-up time is no later than the entry's
\* valid_until or MIN_TIME_BEFORE_REFRESH after the sleep began, whichever is
\* later, for every cached entry, those inserted during the sleep included.
C19_TimelyRefresh ==
    rpc = "sleeping" =>
        \A n \in DOMAIN cache_data :
            wake_at <= Max(cache_data[n].valid_until, sleep_began + MIN_TIME_BEFORE_REFRESH)

\* the items of the cycle: in the heap, held aside, or popped and being looked up
ItemsInCycle(q, entries, pc) ==
    BagCardinality(q) + Len(entries) + (IF pc = "lookup" THEN 1 ELSE 0)

\* C20: a refresh cycle ends.  While it goes on, the heap only loses items and
\* the items held aside only grow, one for each lookup, the number of items
\* staying the same; only an item with at most MIN_TIME_BEFORE_REFRESH left at
\* the start of the cycle is looked up; and the drain ends with the heap left
\* as it is and holding no item with less than that left.
C20_CycleTerminates ==
    /\ [][(InCycle /\ rpc' \in {"draining", "lookup", "finish"}) =>
             /\ ItemsInCycle(refresh_queue', new_entries', rpc')
                    = ItemsInCycle(refresh_queue, new_entries, rpc)
             /\ refresh_queue' \sqsubseteq refresh_queue
             /\ Len(new_entries') >= Len(new_entries)
             /\ SubSeq(new_entries', 1, Len(new_entries)) = new_entries
             /\ Len(new_entries') <= Len(new_entries) + 1
             /\ (rpc = "lookup" /\ rpc' = "draining")
                    = (Len(new_entries') = Len(new_entries) + 1)
             /\ rpc' = "lookup" =>
                    queue_element'.valid_until - refresh_start' <= MIN_TIME_BEFORE_REFRESH
             /\ (rpc = "draining" /\ rpc' = "finish") =>
                    /\ refresh_queue' = refresh_queue
                    /\ \A item \in BagToSet(refresh_queue) :
                          item.valid_until - refresh_start > MIN_TIME_BEFORE_REFRESH]_vars
    /\ InCycle ~> (rpc = "loop_top")

\* a drain is over in which an item came back with no validity left and was
\* held aside, and an item that was not due was left in the heap
C20_Witness ==
    /\ rpc = "finish"
    /\ Len(new_entries) = 1
    /\ new_entries[1].valid_until <= refresh_start
    /\ BagCardinality(refresh_queue) = 1

\* C21: whenever nobody holds the cache write lock, the refresh queue holds one
\* item for each name of the cache map and no other item, and the item of a
\* name carries the valid_until of the name's cache entry.
C21_QueueCacheConsistent ==
    cache_writer = "none" =>
        /\ BagCardinality(refresh_queue) = Cardinality(DOMAIN cache_data)
        /\ \A item \in BagToSet(refresh_queue) : item.name \in DOMAIN cache_data
        /\ \A n \in DOMAIN cache_data :
              /\ BagCardinality(ItemsOf(refresh_queue, n)) = 1
              /\ \A item \in DOMAIN ItemsOf(refresh_queue, n) :
                    item.valid_until = cache_data[n].valid_until

\* a cycle is over in which the entry of one name was replaced and the
\* re-resolution of the other failed: its entry is still the one of before the
\* first cycle
C21_Witness ==
    /\ rpc = "loop_top"
    /\ cache_writer = "none"
    /\ DOMAIN cache_data = Names
    /\ changed # {}
    /\ \E m \in Names \ changed : cache_data[m].valid_until < MIN_TIME_BEFORE_REFRESH

\* C22: a re-resolution, successful or failed, leaves every watcher set as it
\* is and the entry of the name on the watcher set it had, which is also the
\* one of the item popped; and a remove_watched_name of a cached name leaves
\* the watcher out of the watcher set of the name's live entry.
C22_WatcherSetsSurvive ==
    [][/\ (rpc = "lookup" /\ rpc' = "draining") =>
             /\ watcher_sets' = watcher_sets
             /\ cache_data'[queue_element.name].watchers
                    = cache_data[queue_element.name].watchers
             /\ cache_data'[queue_element.name].watchers = queue_element.watchers
             /\ new_entries'[Len(new_entries')].watchers = queue_element.watchers
       /\ \A w \in Watchers, n \in DOMAIN cache_data :
             RemoveWatchedName(w, n) =>
                 watcher_sets'[cache_data'[n].watchers]
                     = watcher_sets[cache_data[n].watchers] \ {w}]_vars

\* a watcher that was registered on a name when a cycle replaced the name's
\* entry has since been removed from the live entry, whose set is empty now
C22_Witness ==
    \E w \in Watchers, n \in DOMAIN cache_data :
        /\ n \in changed
        /\ n \in updated_names[w]
        /\ watcher_sets[cache_data[n].watchers] = {}
        /\ current_watched_entries[w] = {}
        /\ wpc[w] = "idle"

\* C23: for a watcher with no resolve_and_watch and no remove_watched_name in
\* progress, a name is in the local watched-name set exactly when the watcher
\* is in the watcher set of the name's cache entry.
C23_RegistryConsistent ==
    \A w \in Watchers :
        wpc[w] \notin {"lookup", "blocked"} =>
            \A n \in Names :
                (n \in current_watched_entries[w])
                    = (n \in DOMAIN cache_data /\ w \in watcher_sets[cache_data[n].watchers])

\* both watchers resolved the same name, a cycle replaced its entry, and one of
\* them removed the name afterwards; the other is still registered
C23_Witness ==
    \E w, v \in Watchers, n \in DOMAIN cache_data :
        /\ n \in updated_names[w] /\ n \in updated_names[v]
        /\ watcher_sets[cache_data[n].watchers] = {v}
        /\ current_watched_entries[w] = {}
        /\ current_watched_entries[v] = {n}
        /\ wpc[w] = "idle" /\ wpc[v] = "idle"

\* the verdict a target stands for
VerdictOf(target) == IF target = "ACCEPT" THEN "accept" ELSE "drop"

\* C24: each configured rule has its one rule in the device chain, at the place
\* of the rule in the list; that rule ends in the verdict of the target and
\* holds no other verdict; it matches the source only if the source is a
\* literal address and the destination only if the destination is one, so
\* with neither a literal it is the verdict alone.
C24_OneRulePerRuleSpec ==
    batch # <<>> =>
        \A i \in 1..Len(fw_config) :
            LET device == fw_config[i]
                o == Offset(fw_config, i) + 3
            IN  /\ \A k \in 1..Len(device.rules) :
                      LET rule_spec == device.rules[k]
                          exprs == batch[o + k].exprs
                      IN  /\ batch[o + k].msg = "Add" /\ batch[o + k].obj = "rule"
                          /\ batch[o + k].chain = device.id
                          /\ exprs[Len(exprs)] = <<"verdict", VerdictOf(rule_spec.target), "">>
                          /\ \A j \in 1..(Len(exprs) - 1) : exprs[j][1] # "verdict"
                          /\ (\E j \in 1..Len(exprs) : exprs[j][3] = "saddr")
                                 = (rule_spec.src.kind = "Ip")
                          /\ (\E j \in 1..Len(exprs) : exprs[j][3] = "daddr")
                                 = (rule_spec.dst.kind = "Ip")
                          /\ (rule_spec.src.kind # "Ip" /\ rule_spec.dst.kind # "Ip")
                                 => Len(exprs) = 1
                /\ Cardinality({k \in 1..Len(batch) : batch[k].chain = device.id})
                       = Len(device.rules)

\* a configuration with a rule whose source is a hostname and whose
\* destination is absent has been compiled, next to a rule with literals
C24_Witness ==
    /\ batch # <<>>
    /\ fw_status = "running"
    /\ applies >= 1
    /\ \E i \in 1..Len(fw_config) :
          /\ Len(fw_config[i].rules) = 2
          /\ fw_config[i].rules[1].src.kind = "Ip"
          /\ fw_config[i].rules[2].src.kind = "Fqdn"
          /\ fw_config[i].rules[2].dst.kind = "None"
          /\ fw_config[i].rules[2].target = "REJECT"

\* C25: resolve_and_watch of a cached name whose valid_until has passed returns
\* the cached addresses at once, with no resolver lookup and no change of the
\* cache; the addresses of an entry change only when the scheduler's
\* re-resolution of the name succeeds, and a failed one leaves the entry as
\* it is.
C25_NoExpiryCheckOnRead ==
    [][/\ \A w \in Watchers, n \in DOMAIN cache_data :
             (ResolveAndWatch(w, n) /\ cache_data[n].valid_until < now) =>
                 /\ wpc'[w] = "idle"
                 /\ cache_writer' = "none"
                 /\ result' = [ok |-> TRUE, addrs |-> cache_data[n].addrs]
                 /\ cache_data' = cache_data
       /\ \A n \in DOMAIN cache_data :
             cache_data'[n] # cache_data[n] =>
                 /\ rpc = "lookup" /\ rpc' = "draining"
                 /\ queue_element.name = n
                 /\ resolver_reply'.ok
                 /\ cache_data'[n].addrs = resolver_reply'.addrs]_vars

\* the re-resolution of an entry has failed after its valid_until had passed;
\* the entry is still in the cache, with both watchers registered, and its
\* addresses are the ones the last resolve_and_watch returned
C25_Witness ==
    \E n \in DOMAIN cache_data :
        /\ rpc = "draining"
        /\ resolver_reply.name = n
        /\ ~resolver_reply.ok
        /\ cache_data[n].valid_until < refresh_start
        /\ watcher_sets[cache_data[n].watchers] = Watchers
        /\ result = [ok |-> TRUE, addrs |-> cache_data[n].addrs]

====
